---- MODULE Spec2Model ----
(***************************************************************************)
(* Model of accounts/abi/method.go: Method.pack, the two definitions of   *)
(* Method.tupleUnpack, isTupleReturn, singleUnpack, Sig and Id.            *)
(*                                                                         *)
(* Buffers are sequences of bytes (0..255).  Go strings, method names and  *)
(* type strings are sequences of bytes as well.  A *big.Int is its         *)
(* big-endian base-256 digit string without leading zeros.                 *)
(***************************************************************************)
EXTENDS Integers, Sequences, FiniteSets, TLC

\* ------------------------------------------------------------------ bounds
MaxArity == 2
MaxArr == 3
MaxExtra == 1

\* ------------------------------------------------------- program constants
WordSize == 32
IdLength == 4
Huge == 256 * 256 * 256

\* ------------------------------------------------------------ byte helpers
Zeros(n) == [k \in 1..n |-> 0]

Drop(s, n) == SubSeq(s, n + 1, Len(s))

Take(s, n) == SubSeq(s, 1, n)

LeftPadBytes(b, n) == IF Len(b) >= n THEN b ELSE Zeros(n - Len(b)) \o b

RightPadBytes(b, n) == IF Len(b) >= n THEN b ELSE b \o Zeros(n - Len(b))

RECURSIVE StripZeros(_)
StripZeros(b) == IF b /= << >> /\ Head(b) = 0 THEN StripZeros(Tail(b)) ELSE b

RECURSIVE IntDigits(_)
IntDigits(n) == IF n = 0 THEN << >> ELSE Append(IntDigits(n \div 256), n % 256)

RECURSIVE DigitsInt(_)
DigitsInt(b) == IF b = << >> THEN 0 ELSE 256 * DigitsInt(Take(b, Len(b) - 1)) + b[Len(b)]

\* binary.BigEndian.Uint64 of 8 bytes, as a Go int; everything at or above
\* Huge is reported as Huge (no buffer of the model is that long).
Uint64(b) ==
    LET s == StripZeros(b)
    IN  IF Len(s) > 3 THEN Huge ELSE DigitsInt(s)

\* ------------------------------------------------------------- ABI types
UintTy == "UintTy"
StringTy == "StringTy"
ArrayTy == "ArrayTy"

Uint256 == [T |-> UintTy, Size |-> 256]
StringT == [T |-> StringTy, Size |-> 0]
ArrayT(k) == [T |-> ArrayTy, Size |-> k]

Types == {Uint256, StringT, ArrayT(MaxArr)}

\* Type.String(): "uint256", "string", "uint256[K]" (K a single digit here)
TypeString(t) ==
    CASE t.T = UintTy -> <<117, 105, 110, 116, 50, 53, 54>>
      [] t.T = StringTy -> <<115, 116, 114, 105, 110, 103>>
      [] t.T = ArrayTy -> <<117, 105, 110, 116, 50, 53, 54, 91, 48 + t.Size, 93>>

requiresLengthPrefix(t) == t.T = StringTy

\* ------------------------------------------------------------- Go values
\* A value is [ty, v]: [ty |-> "big", v |-> digits], [ty |-> "string", v |-> bytes],
\* [ty |-> "arr", v |-> <<digits, ...>>].  A Go type is [ty, n], n the array length.
GoType(t) ==
    CASE t.T = UintTy -> [ty |-> "big", n |-> 0]
      [] t.T = StringTy -> [ty |-> "string", n |-> 0]
      [] t.T = ArrayTy -> [ty |-> "arr", n |-> t.Size]

IntGoType == [ty |-> "int", n |-> 0]

\* packNum of a Go int and of a *big.Int: 32 bytes, big endian
packNumInt(n) == LeftPadBytes(IntDigits(n), WordSize)

packNumBig(d) == LeftPadBytes(d, WordSize)

\* packBytesSlice: length word, then the bytes right padded to whole words
packBytesSlice(b, l) ==
    packNumInt(l) \o RightPadBytes(b, ((Len(b) + WordSize - 1) \div WordSize) * WordSize)

RECURSIVE packElems(_)
packElems(vs) == IF vs = << >> THEN << >> ELSE packNumBig(Head(vs)) \o packElems(Tail(vs))

\* Type.pack(v): [err, packed]; a value of the wrong Go type is a typeCheck error
TypePack(t, val) ==
    IF val.ty /= GoType(t).ty \/ (t.T = ArrayTy /\ Len(val.v) /= t.Size)
    THEN [err |-> TRUE, packed |-> << >>]
    ELSE [err |-> FALSE,
          packed |-> CASE t.T = UintTy -> packNumBig(val.v)
                       [] t.T = StringTy -> packBytesSlice(val.v, Len(val.v))
                       [] t.T = ArrayTy -> packElems(val.v)]

\* ------------------------------------------------------------ Method.pack
\* a pack that forgets the tail accumulated so far
packOffsetHeadOnly(method, variableInput) == Len(method.Inputs) * WordSize

\* offset := len(method.Inputs)*32 + len(variableInput)
packOffset(method, variableInput) == Len(method.Inputs) * WordSize + Len(variableInput)

\* one iteration of the loop over args; st = [err, ret, variableInput, headAt, tailAt]
\* headAt[i] / tailAt[i]: len(ret) / len(variableInput) when argument i is reached
packStep(method, i, a, st) ==
    LET input == method.Inputs[i]
        p == TypePack(input.Type, a)
        st1 == [st EXCEPT !.headAt = Append(@, Len(st.ret)),
                          !.tailAt = Append(@, Len(st.variableInput))]
    IN  IF p.err THEN [st1 EXCEPT !.err = "pack"]
        ELSE IF requiresLengthPrefix(input.Type)
        THEN [st1 EXCEPT !.ret = @ \o packNumInt(packOffset(method, st.variableInput)),
                         !.variableInput = @ \o p.packed]
        ELSE [st1 EXCEPT !.ret = @ \o p.packed]

RECURSIVE packLoop(_, _, _, _)
packLoop(method, as, i, st) ==
    IF i > Len(as) \/ st.err /= "" THEN st
    ELSE packLoop(method, as, i + 1, packStep(method, i, as[i], st))

\* [err, ret, headLen, headAt, tailAt]
pack(method, as) ==
    IF Len(as) /= Len(method.Inputs)
    THEN [err |-> "count", ret |-> << >>, headLen |-> 0, headAt |-> << >>, tailAt |-> << >>]
    ELSE LET st == packLoop(method, as, 1,
                     [err |-> "", ret |-> << >>, variableInput |-> << >>,
                      headAt |-> << >>, tailAt |-> << >>])
         IN  [err |-> st.err,
              ret |-> IF st.err = "" THEN st.ret \o st.variableInput ELSE << >>,
              headLen |-> Len(st.ret), headAt |-> st.headAt, tailAt |-> st.tailAt]

TypeOf(val) == [ty |-> val.ty, n |-> IF val.ty = "arr" THEN Len(val.v) ELSE 0]

NilValue == [ty |-> "nil", v |-> << >>]

\* ---------------------------------------------------------------- toGoType
Slice(output, from, to) == SubSeq(output, from + 1, to)

\* lengthPrefixPointsTo(index, output): [err, start, length]
lengthPrefixPointsTo(index, output) ==
    LET offset == Uint64(Slice(output, index + 24, index + 32))
    IN  IF offset + 32 > Len(output) THEN [err |-> TRUE, start |-> 0, length |-> 0]
        ELSE LET length == Uint64(Slice(output, offset + 24, offset + 32))
             IN  IF offset + 32 + length > Len(output)
                 THEN [err |-> TRUE, start |-> 0, length |-> 0]
                 ELSE [err |-> FALSE, start |-> offset + 32, length |-> length]

\* readInteger for a 256 bit kind: new(big.Int).SetBytes(word)
readInteger(word) == StripZeros(word)

\* forEachUnpack over a fixed array of uint256 starting at byte index start
forEachUnpack(output, start, size) ==
    IF start + 32 * size > Len(output) THEN [err |-> TRUE, val |-> NilValue]
    ELSE [err |-> FALSE,
          val |-> [ty |-> "arr",
                   v |-> [k \in 1..size |->
                            readInteger(Slice(output, start + 32 * (k - 1), start + 32 * k))]]]

\* toGoType(index, t, output): [err, val]
toGoType(index, t, output) ==
    IF index + 32 > Len(output) THEN [err |-> TRUE, val |-> NilValue]
    ELSE CASE t.T = StringTy ->
                LET lp == lengthPrefixPointsTo(index, output)
                IN  IF lp.err THEN [err |-> TRUE, val |-> NilValue]
                    ELSE [err |-> FALSE,
                          val |-> [ty |-> "string",
                                   v |-> Slice(output, lp.start, lp.start + lp.length)]]
           [] t.T = ArrayTy -> forEachUnpack(output, index, t.Size)
           [] t.T = UintTy ->
                [err |-> FALSE,
                 val |-> [ty |-> "big", v |-> readInteger(Slice(output, index, index + 32))]]

\* ------------------------------------------------------------ destinations
\* A destination is [kind, slots]; kind is "nonptr" (not a pointer), or what
\* the pointer points to: "struct", "slice", "array", "map", "single".
\* A slot is [name, iface, ptr, ty, v]:
\*   struct field:  name, type ty, value v (iface = ptr = FALSE);
\*   element of []interface{}: iface = TRUE and the interface holds a pointer
\*   to a ty (ptr = TRUE, v the pointee) or a bare ty (ptr = FALSE);
\*   element of a typed slice such as []int: iface = FALSE.

\* set(dst, src, output) on a destination of Go type ty holding v.
\* addressable: whether reflect may Set the value itself.
set(slot, src, addressable) ==
    IF slot.ptr
    THEN \* *T is not assignable to the decoded type and is a pointer: set(dst.Elem(), ...)
         IF slot.ty = TypeOf(src)
         THEN [err |-> "", slot |-> [slot EXCEPT !.v = src.v]]
         ELSE [err |-> "unmarshal", slot |-> slot]
    ELSE IF slot.ty = TypeOf(src)
         THEN IF addressable THEN [err |-> "", slot |-> [slot EXCEPT !.v = src.v]]
              ELSE [err |-> "panic", slot |-> slot]
         ELSE [err |-> "unmarshal", slot |-> slot]

\* requireAssignable(dst, src): dst must be a pointer or an interface
requireAssignable(slot) == slot.iface \/ slot.ptr

\* requireUnpackKind(value, typ, kind, outputs, false)
requireUnpackKind(dest, outputs) ==
    CASE dest.kind = "struct" -> ""
      [] dest.kind \in {"slice", "array"} ->
            IF Len(dest.slots) < Len(outputs) THEN "insufficient" ELSE ""
      [] OTHER -> "kind"

\* strings.ToUpper on one byte
ToUpper(c) == IF c >= 97 /\ c <= 122 THEN c - 32 ELSE c

\* ------------------------------------------------------ Method.tupleUnpack
\* The head cursor of the first definition: decode at (i+j)*32, then
\* j += output.Type.Size - 1 for an array.  i is the 0-based position.
headCursor(i, j, t) ==
    [index |-> (i + j) * WordSize,
     j |-> IF t.T = ArrayTy THEN j + t.Size - 1 ELSE j]

\* The head cursor of the second definition: j += o.Type.Size for an array,
\* then decode at (i+j)*32.
headCursorB(i, j, t) ==
    LET j2 == IF t.T = ArrayTy THEN j + t.Size ELSE j
    IN  [index |-> (i + j2) * WordSize, j |-> j2]

\* field.Name == strings.ToUpper(output.Name[:1]) + output.Name[1:]
\* (evaluated for a non-empty output name)
fieldMatches(fieldName, outputName) ==
    fieldName = <<ToUpper(outputName[1])>> \o Drop(outputName, 1)

\* a field loop that drops the error of set
RECURSIVE structCaseUnchecked(_, _, _, _)
structCaseUnchecked(slots, f, output, rv) ==
    IF f > Len(slots) THEN [err |-> "", slots |-> slots]
    ELSE IF Len(output.Name) < 1 THEN [err |-> "panic", slots |-> slots]
    ELSE IF fieldMatches(slots[f].name, output.Name)
    THEN structCaseUnchecked([slots EXCEPT ![f] = set(slots[f], rv, TRUE).slot],
                             f + 1, output, rv)
    ELSE structCaseUnchecked(slots, f + 1, output, rv)

\* case reflect.Struct: the loop over the fields, from field f on.
\* output.Name[:1] faults on an empty name each time the comparison is evaluated.
RECURSIVE structCase(_, _, _, _)
structCase(slots, f, output, rv) ==
    IF f > Len(slots) THEN [err |-> "", slots |-> slots]
    ELSE IF Len(output.Name) < 1 THEN [err |-> "panic", slots |-> slots]
    ELSE IF fieldMatches(slots[f].name, output.Name)
    THEN LET r == set(slots[f], rv, TRUE)
         IN  IF r.err /= "" THEN [err |-> r.err, slots |-> slots]
             ELSE structCase([slots EXCEPT ![f] = r.slot], f + 1, output, rv)
    ELSE structCase(slots, f + 1, output, rv)

\* case reflect.Slice, reflect.Array: value.Index(i), requireAssignable, set(v.Elem(), ...)
sliceCase(slots, i, rv) ==
    IF i + 1 > Len(slots) THEN [err |-> "panic", slots |-> slots]
    ELSE IF ~requireAssignable(slots[i + 1]) THEN [err |-> "unmarshal", slots |-> slots]
    ELSE LET r == set(slots[i + 1], rv, FALSE)
         IN  IF r.err /= "" THEN [err |-> r.err, slots |-> slots]
             ELSE [err |-> "", slots |-> [slots EXCEPT ![i + 1] = r.slot]]

\* checks that leave the length of a slice or array unexamined
unpackGuardNoLength(dest, outputs) ==
    IF dest.kind = "nonptr" THEN "nonptr"
    ELSE IF dest.kind \in {"struct", "slice", "array"} THEN "" ELSE "kind"

\* The checks before the loop: the pointer check and requireUnpackKind.
unpackGuard(dest, outputs) ==
    IF dest.kind = "nonptr" THEN "nonptr" ELSE requireUnpackKind(dest, outputs)

\* One iteration of the loop, for 0-based position i.
\* st = [err, at, j, slots, idx, vals]: idx and vals record, per position
\* reached, the byte index handed to toGoType and the value it returned.
unpackStep(second, dest, outputs, output, i, st) ==
    LET o == outputs[i + 1]
        c == IF second THEN headCursorB(i, st.j, o.Type) ELSE headCursor(i, st.j, o.Type)
        m == toGoType(c.index, o.Type, output)
        st1 == [st EXCEPT !.at = i, !.idx = Append(@, c.index)]
    IN  IF m.err THEN [st1 EXCEPT !.err = "truncated"]
        ELSE LET r == IF dest.kind = "struct" THEN structCase(st.slots, 1, o, m.val)
                      ELSE sliceCase(st.slots, i, m.val)
             IN  [st1 EXCEPT !.err = r.err, !.slots = r.slots, !.j = c.j,
                             !.vals = Append(@, m.val)]

\* a loop that notes the first error and carries on to the last output
RECURSIVE unpackLoopOn(_, _, _, _, _, _)
unpackLoopOn(second, dest, outputs, output, i, st) ==
    IF i >= Len(outputs) THEN st
    ELSE LET n == unpackStep(second, dest, outputs, output, i, [st EXCEPT !.err = ""])
         IN  unpackLoopOn(second, dest, outputs, output, i + 1,
                          IF st.err /= ""
                          THEN [n EXCEPT !.err = st.err, !.at = st.at, !.idx = st.idx]
                          ELSE n)

RECURSIVE unpackLoop(_, _, _, _, _, _)
unpackLoop(second, dest, outputs, output, i, st) ==
    IF i >= Len(outputs) \/ st.err /= "" THEN st
    ELSE unpackLoop(second, dest, outputs, output, i + 1,
                    unpackStep(second, dest, outputs, output, i, st))

\* tupleUnpack(v, output) of either definition: [err, at, slots, idx, vals]
tupleUnpackOf(second, method, dest, output) ==
    LET g == unpackGuard(dest, method.Outputs)
        st0 == [err |-> g, at |-> -1, j |-> 0, slots |-> dest.slots,
                idx |-> << >>, vals |-> << >>]
    IN  IF g /= "" THEN st0
        ELSE unpackLoop(second, dest, method.Outputs, output, 0, st0)

tupleUnpack(method, dest, output) == tupleUnpackOf(FALSE, method, dest, output)

tupleUnpackB(method, dest, output) == tupleUnpackOf(TRUE, method, dest, output)

\* ------------------------------------------- isTupleReturn, singleUnpack
isTupleReturn(method) == Len(method.Outputs) > 1

\* singleUnpack: the pointer check, toGoType(0, Outputs[0].Type, output), set(value, ...)
\* method.Outputs[0] faults on an empty output list.
singleUnpack(method, dest, output) ==
    LET st0 == [err |-> "", at |-> -1, j |-> 0, slots |-> dest.slots,
                idx |-> << >>, vals |-> << >>]
    IN  IF dest.kind = "nonptr" THEN [st0 EXCEPT !.err = "nonptr"]
        ELSE IF Len(method.Outputs) = 0 THEN [st0 EXCEPT !.err = "panic"]
        ELSE LET m == toGoType(0, method.Outputs[1].Type, output)
                 st1 == [st0 EXCEPT !.at = 0, !.idx = <<0>>]
             IN  IF m.err THEN [st1 EXCEPT !.err = "truncated"]
                 ELSE IF dest.kind /= "single"
                 THEN [st1 EXCEPT !.err = "unmarshal", !.vals = <<m.val>>]
                 ELSE LET r == set(dest.slots[1], m.val, TRUE)
                      IN  [st1 EXCEPT !.err = r.err, !.slots = <<r.slot>>,
                                      !.vals = <<m.val>>]

\* ABI.Unpack: the choice between the two decoders
Unpack(method, dest, output) ==
    IF isTupleReturn(method)
    THEN [path |-> "tuple", res |-> tupleUnpack(method, dest, output)]
    ELSE [path |-> "single", res |-> singleUnpack(method, dest, output)]

\* ------------------------------------------------------------- Sig and Id
RECURSIVE Join(_, _)
Join(strs, sep) ==
    IF strs = << >> THEN << >>
    ELSE IF Len(strs) = 1 THEN strs[1]
    ELSE strs[1] \o sep \o Join(Tail(strs), sep)

\* a signature joined the way String() joins, with ", "
SigSpaced(method) ==
    LET types == [i \in 1..Len(method.Inputs) |-> TypeString(method.Inputs[i].Type)]
    IN  method.Name \o <<40>> \o Join(types, <<44, 32>>) \o <<41>>

\* fmt.Sprintf("%v(%v)", method.Name, strings.Join(types, ","))
Sig(method) ==
    LET types == [i \in 1..Len(method.Inputs) |-> TypeString(method.Inputs[i].Type)]
    IN  method.Name \o <<40>> \o Join(types, <<44>>) \o <<41>>

\* crypto.Keccak256 stands outside the codec: a fixed function from bytes to
\* 32 bytes, here a polynomial checksum per output byte.
RECURSIVE Mix(_, _)
Mix(b, k) == IF b = << >> THEN k ELSE (Mix(Take(b, Len(b) - 1), k) * 31 + b[Len(b)] + k) % 251

Keccak256(b) == [k \in 1..32 |-> Mix(b, k)]

\* crypto.Keccak256([]byte(method.Sig()))[:4]
Id(method) == Take(Keccak256(Sig(method)), IdLength)

\* ------------------------------------------------------------------ inputs
\* Three profiles of argument names and values.
Profiles == 1..3

\* the name of the argument at position p (1-based): "a", "b", ...; "ax", "bx", ...;
\* or, in profile 3, an unnamed first argument
ArgName(profile, p) ==
    CASE profile = 1 -> <<96 + p>>
      [] profile = 2 -> <<96 + p, 120>>
      [] profile = 3 -> IF p = 1 THEN << >> ELSE <<96 + p>>

\* the value passed for the argument of type t at position p
ArgValue(profile, p, t) ==
    CASE t.T = UintTy ->
            [ty |-> "big", v |-> IF profile = 2 THEN (IF p = 1 THEN << >> ELSE <<p, 0>>) ELSE <<p>>]
      [] t.T = StringTy ->
            [ty |-> "string",
             v |-> IF profile = 2 THEN (IF p = 1 THEN << >> ELSE [k \in 1..(WordSize + 1) |-> 120])
                   ELSE <<97, 98, 99>>]
      [] t.T = ArrayTy ->
            [ty |-> "arr",
             v |-> [k \in 1..t.Size |->
                      IF profile = 2 THEN (IF k = 1 THEN << >> ELSE <<k, p>>) ELSE <<10 * p + k>>]]

TypeLists == UNION {[1..n -> Types] : n \in 0..MaxArity}

MethodOf(profile, types) ==
    LET arguments == [p \in 1..Len(types) |-> [Name |-> ArgName(profile, p), Type |-> types[p]]]
    IN  [Name |-> <<102>>, Const |-> FALSE, Inputs |-> arguments, Outputs |-> arguments]

ArgsOf(profile, types) == [p \in 1..Len(types) |-> ArgValue(profile, p, types[p])]

\* what a destination slot holds before the call
Prior(gt) ==
    CASE gt.ty = "big" -> <<200>>
      [] gt.ty = "string" -> <<122>>
      [] gt.ty = "arr" -> [k \in 1..gt.n |-> <<200>>]
      [] OTHER -> << >>

Field(name, gt) == [name |-> name, iface |-> FALSE, ptr |-> FALSE, ty |-> gt, v |-> Prior(gt)]

Elem(iface, ptr, gt) == [name |-> << >>, iface |-> iface, ptr |-> ptr, ty |-> gt, v |-> Prior(gt)]

\* the exported field name for an output: its name capitalised, "X" when unnamed
FieldNameFor(o) == IF o.Name = << >> THEN <<88>> ELSE <<ToUpper(o.Name[1])>> \o Drop(o.Name, 1)

Without(s, p) == Take(s, p - 1) \o Drop(s, p)

StructDests(outputs) ==
    LET n == Len(outputs)
        good == [p \in 1..n |-> Field(FieldNameFor(outputs[p]), GoType(outputs[p].Type))]
    IN  {[kind |-> "struct", slots |-> f] :
            f \in {good, << >>, Append(good, Field(<<90>>, GoType(Uint256))),
                   [p \in 1..n |-> [good[p] EXCEPT !.name = [k \in 1..Len(@) |-> ToUpper(@[k])]]]}
                  \cup {[good EXCEPT ![p] = Field(good[p].name, IntGoType)] : p \in 1..n}
                  \cup {Without(good, p) : p \in 1..n}}

SliceDests(outputs) ==
    LET n == Len(outputs)
        good(len) == [p \in 1..len |-> Elem(TRUE, TRUE,
                                         IF p <= n THEN GoType(outputs[p].Type) ELSE GoType(Uint256))]
    IN  {[kind |-> "slice", slots |-> good(len)] : len \in 0..(n + MaxExtra)}
        \cup {[kind |-> "array", slots |-> good(n)]}
        \cup {[kind |-> "slice", slots |-> [good(n) EXCEPT ![p] = e]] :
                p \in 1..n,
                e \in {Elem(TRUE, TRUE, IntGoType), Elem(TRUE, FALSE, IntGoType),
                       Elem(FALSE, FALSE, IntGoType)}}
        \cup {[kind |-> "slice", slots |-> [good(n) EXCEPT ![p].ptr = FALSE]] : p \in 1..n}

OtherDests(outputs) ==
    {[kind |-> k, slots |-> << >>] : k \in {"nonptr", "map"}}
    \cup {[kind |-> "single", slots |-> <<Field(<<>>, gt)>>] :
            gt \in {GoType(Uint256)} \cup {GoType(outputs[p].Type) : p \in 1..Len(outputs)}}

Dests(outputs) == StructDests(outputs) \cup SliceDests(outputs) \cup OtherDests(outputs)

\* ----------------------------------------------------------- state machine
VARIABLES method, args, buf, last

vars == <<method, args, buf, last>>

Init ==
    \E profile \in Profiles, types \in TypeLists :
        /\ method = MethodOf(profile, types)
        /\ args = ArgsOf(profile, types)
        /\ buf = << >>
        /\ last = [op |-> "none"]

\* A run packs the arguments, possibly shortens the buffer, and then makes one
\* call of a decoder or of Sig/Id; last.op names the call made last.
Calling == last.op \in {"none", "pack", "truncate"}

\* method.pack(args[:n]...): the packed bytes become the buffer to decode
Pack ==
    /\ last.op = "none"
    /\ \E n \in 0..Len(args) :
         LET r == pack(method, Take(args, n))
         IN  /\ last' = [op |-> "pack", n |-> n, r |-> r]
             /\ buf' = r.ret
             /\ UNCHANGED <<method, args>>

\* the caller hands over a shorter buffer: a word less, or a byte less than whole words
Truncate ==
    /\ Calling
    /\ buf /= << >>
    /\ \E c \in {1, WordSize} :
         /\ Len(buf) % WordSize = 0
         /\ buf' = Take(buf, Len(buf) - c)
    /\ last' = [op |-> "truncate"]
    /\ UNCHANGED <<method, args>>

Decoded(op, dest, path, r) == [op |-> op, dest |-> dest, path |-> path, r |-> r]

TupleUnpack ==
    Calling /\ \E dest \in Dests(method.Outputs) :
        /\ last' = Decoded("tupleUnpack", dest, "tuple", tupleUnpack(method, dest, buf))
        /\ UNCHANGED <<method, args, buf>>

TupleUnpackB ==
    Calling /\ \E dest \in Dests(method.Outputs) :
        /\ last' = Decoded("tupleUnpackB", dest, "tuple", tupleUnpackB(method, dest, buf))
        /\ UNCHANGED <<method, args, buf>>

AbiUnpack ==
    Calling /\ \E dest \in Dests(method.Outputs) :
        LET u == Unpack(method, dest, buf)
        IN  /\ last' = Decoded("Unpack", dest, u.path, u.res)
            /\ UNCHANGED <<method, args, buf>>

\* Sig and Id of the method, and of a method that differs from it in the
\* argument names, the outputs and the constant flag only
SigId ==
    LET other == [method EXCEPT !.Const = TRUE, !.Outputs = << >>,
                     !.Inputs = [p \in 1..Len(@) |-> [@[p] EXCEPT !.Name = <<122>>]]]
    IN  /\ Calling
        /\ last' = [op |-> "Sig", sig |-> Sig(method), id |-> Id(method),
                    otherSig |-> Sig(other), otherId |-> Id(other)]
        /\ UNCHANGED <<method, args, buf>>

Next == Pack \/ Truncate \/ TupleUnpack \/ TupleUnpackB \/ AbiUnpack \/ SigId

Spec == Init /\ [][Next]_vars

\* ------------------------------------------------------- shared vocabulary
Arity == Len(method.Outputs)

IsDecode == last.op \in {"tupleUnpack", "tupleUnpackB", "Unpack"}

\* the calls of either definition of tupleUnpack, direct or through ABI.Unpack
IsTuple == IsDecode /\ last.path = "tuple"

IsSeqDest(d) == d.kind \in {"slice", "array"}

\* the complete, untruncated result of packing all the arguments
FullyPacked == pack(method, args).err = "" /\ buf = pack(method, args).ret

\* a sequence destination whose first Arity elements are pointers to slots of
\* the Go types the outputs decode to
FitsOutputs(d) ==
    /\ IsSeqDest(d)
    /\ Len(d.slots) >= Arity
    /\ \A p \in 1..Arity :
         d.slots[p].iface /\ d.slots[p].ptr /\ d.slots[p].ty = GoType(method.Outputs[p].Type)

\* head words an output occupies: K for a fixed array of K static elements, else 1
HeadWords(t) == IF t.T = ArrayTy THEN t.Size ELSE 1

RECURSIVE HeadWordsBefore(_, _)
HeadWordsBefore(arguments, k) ==
    IF k <= 1 THEN 0 ELSE HeadWordsBefore(arguments, k - 1) + HeadWords(arguments[k - 1].Type)

\* ---------------------------------------------------------------------- C1
\* C1: round trip.  When the buffer is pack(args) for a method whose outputs
\* equal its inputs, the first definition of tupleUnpack, given a sequence of
\* pointers of the matching types, returns no error and leaves vs[k] in
\* position k.
RoundTrip ==
    (last.op = "tupleUnpack" /\ FullyPacked /\ FitsOutputs(last.dest))
        => /\ last.r.err = ""
           /\ \A k \in 1..Arity : last.r.slots[k].v = args[k].v

\* ---------------------------------------------------------------------- C2
\* C2: head cursor.  In both definitions of tupleUnpack the value for position
\* k is decoded from the head word whose index is the sum of the head words
\* of the positions before k.
HeadCursorBoth ==
    (last.op \in {"tupleUnpack", "tupleUnpackB"})
        => \A k \in 1..Len(last.r.idx) :
              last.r.idx[k] = WordSize * HeadWordsBefore(method.Outputs, k)

\* ---------------------------------------------------------------------- C3
\* the bytes argument k adds to the tail (none for a static argument)
TailBytes(k) ==
    IF requiresLengthPrefix(method.Inputs[k].Type)
    THEN Len(TypePack(method.Inputs[k].Type, args[k]).packed) ELSE 0

\* the bytes argument k adds to the head
HeadBytes(k) ==
    IF requiresLengthPrefix(method.Inputs[k].Type) THEN WordSize
    ELSE Len(TypePack(method.Inputs[k].Type, args[k]).packed)

RECURSIVE TailBefore(_)
TailBefore(k) == IF k <= 1 THEN 0 ELSE TailBefore(k - 1) + TailBytes(k - 1)

RECURSIVE HeadBefore(_)
HeadBefore(k) == IF k <= 1 THEN 0 ELSE HeadBefore(k - 1) + HeadBytes(k - 1)

PackedAll == last.op = "pack" /\ last.r.err = ""

\* C3: head/tail layout of pack.  With H = 32 x arity, the head entry of a
\* dynamic argument is the word H + (tail bytes of the earlier dynamic
\* arguments), the head entry of a static argument is its direct encoding,
\* and the tail follows the whole head with the dynamic payloads in order.
PackLayout ==
    PackedAll =>
        LET n == Len(method.Inputs)
            H == WordSize * n
            ret == last.r.ret
            headEnd == HeadBefore(n + 1)
        IN  /\ Len(ret) = headEnd + TailBefore(n + 1)
            /\ \A k \in 1..n :
                 LET t == method.Inputs[k].Type
                     enc == TypePack(t, args[k]).packed
                 IN  IF requiresLengthPrefix(t)
                     THEN /\ Slice(ret, HeadBefore(k), HeadBefore(k) + WordSize)
                               = Zeros(WordSize - 2) \o <<(H + TailBefore(k)) \div 256,
                                                          (H + TailBefore(k)) % 256>>
                          /\ Slice(ret, headEnd + TailBefore(k), headEnd + TailBefore(k + 1)) = enc
                     ELSE /\ Slice(ret, HeadBefore(k), HeadBefore(k + 1)) = enc
                          /\ TailBefore(k + 1) = TailBefore(k)

\* two dynamic arguments have been packed: the second offset counts a tail
PackLayoutWitness ==
    /\ PackedAll
    /\ \E k \in 1..Len(method.Inputs) :
         requiresLengthPrefix(method.Inputs[k].Type) /\ TailBefore(k) > 0

\* ---------------------------------------------------------------------- C4
\* C4: decode dispatch.  ABI.Unpack takes the single-slot path exactly when
\* the method has one output; every other length, 0 included, takes the
\* tuple path.
DispatchByArity ==
    (last.op = "Unpack") => (last.path = "single" <=> Arity = 1)

\* ---------------------------------------------------------------------- C5
\* an error returned from inside the loop, at 0-based position last.r.at
ErrorAtPosition == IsTuple /\ last.r.err \in {"truncated", "unmarshal"} /\ last.r.at >= 0

\* the positions before position k (1-based) that a struct field's name matches
MatchesBefore(fieldName, k) ==
    {p \in 1..(k - 1) : /\ method.Outputs[p].Name /= << >>
                        /\ fieldMatches(fieldName, method.Outputs[p].Name)}

\* C5: no partial mutation beyond the error point.  When tupleUnpack returns
\* an error at position k it returns at once, the entries of the positions
\* before k hold the decoded values, and the entries of position k and of the
\* later positions are as they were before the call.
NoMutationBeyondError ==
    ErrorAtPosition =>
        LET k == last.r.at + 1
            before == last.dest.slots
            after == last.r.slots
        IN  /\ Len(last.r.idx) = k
            /\ Len(after) = Len(before)
            /\ IF IsSeqDest(last.dest)
               THEN \A p \in 1..Len(after) :
                       IF p < k THEN after[p] = [before[p] EXCEPT !.v = last.r.vals[p].v]
                       ELSE after[p] = before[p]
               ELSE \A f \in 1..Len(after) :
                       LET ps == MatchesBefore(before[f].name, k)
                       IN  IF ps = {} THEN after[f] = before[f]
                           ELSE \E p \in ps : after[f] = [before[f] EXCEPT !.v = last.r.vals[p].v]

\* an error at the second position, after the first one was written
NoMutationBeyondErrorWitness ==
    /\ ErrorAtPosition
    /\ last.r.at = 1
    /\ last.r.slots[1].v /= last.dest.slots[1].v
    /\ last.r.slots[1].v = last.r.vals[1].v

\* ---------------------------------------------------------------------- C6
DestinationErrors == {"nonptr", "kind", "insufficient"}

Untouched == last.r.idx = << >> /\ last.r.vals = << >> /\ last.r.slots = last.dest.slots

\* C6: destination validation precedes decoding.  tupleUnpack returns a
\* destination error, having read nothing of the buffer and written nothing,
\* for a non-pointer, a pointer to a map and a pointer to a slice or array
\* shorter than the outputs; a slice or array at least as long is accepted.
DestinationValidation ==
    IsTuple =>
        LET d == last.dest
        IN  /\ d.kind = "nonptr" => (last.r.err = "nonptr" /\ Untouched)
            /\ d.kind = "map" => (last.r.err = "kind" /\ Untouched)
            /\ (IsSeqDest(d) /\ Len(d.slots) < Arity)
                  => (last.r.err = "insufficient" /\ Untouched)
            /\ (IsSeqDest(d) /\ Len(d.slots) >= Arity)
                  => last.r.err \notin DestinationErrors

\* a slice one element short is refused although the buffer holds nothing to decode
DestinationValidationWitness ==
    /\ last.op = "tupleUnpack"
    /\ IsSeqDest(last.dest)
    /\ Len(last.dest.slots) = Arity - 1
    /\ last.r.err = "insufficient"
    /\ Len(buf) < WordSize

\* ---------------------------------------------------------------------- C7
\* the destination entries position p (1-based) addresses
Targets(d, p) ==
    IF IsSeqDest(d) THEN {p}
    ELSE {f \in 1..Len(d.slots) : /\ method.Outputs[p].Name /= << >>
                                  /\ fieldMatches(d.slots[f].name, method.Outputs[p].Name)}

\* C7: type compatibility.  For every position decoded, when the slot it
\* addresses (the pointee of a slice element, or the matching struct field) is
\* of a type the decoded value cannot be assigned to, tupleUnpack returns the
\* "cannot unmarshal" error at that position and the slot is not written.
TypeCompatibility ==
    IsTuple =>
        \A p \in 1..Len(last.r.vals) :
            \A f \in Targets(last.dest, p) :
                last.dest.slots[f].ty /= TypeOf(last.r.vals[p])
                    => /\ last.r.err = "unmarshal"
                       /\ last.r.at = p - 1
                       /\ last.r.slots[f] = last.dest.slots[f]

\* a decoded value met a struct field of another type, after an earlier field was set
TypeCompatibilityWitness ==
    /\ last.op = "tupleUnpack"
    /\ last.dest.kind = "struct"
    /\ last.r.err = "unmarshal"
    /\ last.r.at = 1
    /\ \E f \in Targets(last.dest, 2) : last.dest.slots[f].ty = IntGoType

\* ---------------------------------------------------------------------- C8
\* the output name with its first byte upper-cased and the remainder unchanged
Capitalized(name) == IF name = << >> THEN << >> ELSE <<ToUpper(Head(name))>> \o Tail(name)

OutputsNamed(fieldName) == {p \in 1..Arity : Capitalized(method.Outputs[p].Name) = fieldName}

\* C8: named-record matching.  For a struct destination a decoded value goes
\* to exactly the fields named like the capitalized output; an output that
\* matches no field produces no error and changes no field; a field matched
\* by no output keeps its value.
NamedRecordMatching ==
    (IsTuple /\ last.dest.kind = "struct") =>
        LET before == last.dest.slots
            after == last.r.slots
        IN  /\ last.r.err = "" =>
                 \A f \in 1..Len(before) :
                    LET ps == OutputsNamed(before[f].name)
                    IN  IF ps = {} THEN after[f] = before[f]
                        ELSE \E p \in ps : after[f] = [before[f] EXCEPT !.v = last.r.vals[p].v]
            /\ \A p \in 1..Len(last.r.vals) :
                 (\A f \in 1..Len(before) :
                      before[f].name /= Capitalized(method.Outputs[p].Name))
                    => ~(last.r.at = p - 1 /\ last.r.err \in {"unmarshal", "panic"})

\* ---------------------------------------------------------------------- C9
\* the pieces of b between the separators sep (strings.Split)
RECURSIVE Split(_, _, _)
Split(b, sep, piece) ==
    IF b = << >> THEN <<piece>>
    ELSE IF Head(b) = sep THEN <<piece>> \o Split(Tail(b), sep, << >>)
    ELSE Split(Tail(b), sep, Append(piece, Head(b)))

\* C9: signature and selector.  Sig() is the name, "(", the canonical input
\* types joined by "," without spaces, ")"; outputs, argument names and the
\* constant flag do not enter it; Id() is the first 4 bytes of the Keccak-256
\* of Sig().
SigAndId ==
    (last.op = "Sig") =>
        LET sig == last.sig
            n == Len(method.Inputs)
            nameLen == Len(method.Name)
            inner == SubSeq(sig, nameLen + 2, Len(sig) - 1)
        IN  /\ Len(sig) >= nameLen + 2
            /\ Take(sig, nameLen) = method.Name
            /\ sig[nameLen + 1] = 40
            /\ sig[Len(sig)] = 41
            /\ \A k \in 1..Len(sig) : sig[k] /= 32
            /\ IF n = 0 THEN inner = << >>
               ELSE /\ Len(Split(inner, 44, << >>)) = n
                    /\ \A k \in 1..n :
                         Split(inner, 44, << >>)[k] = TypeString(method.Inputs[k].Type)
            /\ Len(last.id) = IdLength
            /\ \A k \in 1..IdLength : last.id[k] = Keccak256(sig)[k]
            /\ last.otherSig = sig
            /\ last.otherId = last.id

\* the signature of a method of two inputs has been taken
SigAndIdWitness ==
    /\ last.op = "Sig"
    /\ Len(method.Inputs) = 2
    /\ method.Inputs[1].Type /= method.Inputs[2].Type

\* --------------------------------------------------------------------- C10
\* C10: offsets point at their payload.  In the buffer pack returns, the
\* offset in the head of every dynamic argument is the byte index at which
\* that argument's length word begins.
OffsetsPointAtPayload ==
    PackedAll =>
        \A k \in 1..Len(method.Inputs) :
            requiresLengthPrefix(method.Inputs[k].Type) =>
                LET at == last.r.headAt[k]
                    offset == Uint64(Slice(last.r.ret, at + 24, at + 32))
                IN  /\ offset = last.r.headLen + last.r.tailAt[k]
                    /\ offset + WordSize <= Len(last.r.ret)
                    /\ Uint64(Slice(last.r.ret, offset + 24, offset + 32)) = Len(args[k].v)

\* --------------------------------------------------------------------- C11
\* C11: tupleUnpack into a struct destination ends by returning nil or an
\* error, never with a runtime fault, whatever the output schema, outputs
\* with the empty name included.
StructUnpackReturns ==
    (IsTuple /\ last.dest.kind = "struct") => last.r.err /= "panic"

====
